---- MODULE Spec2Model ----
(***************************************************************************)
(* The auction ledger of auc.py: the auctions and bids tables of           *)
(* auctions.db, the handlers that write them (save_auction,                *)
(* handle_bid_amount -> record_bid, handle_remove_bid -> remove_last_bid)   *)
(* and the gates in front of them (verified_only, check_system_status).    *)
(*                                                                         *)
(* A nullable column or an optional argument is a sequence of length 0     *)
(* (NULL / None) or 1 (the value).  A text that the code transforms        *)
(* character by character (a bidder name) is a sequence of one-character   *)
(* strings.  Amounts are the integer-valued REALs the handlers accept.     *)
(***************************************************************************)
EXTENDS Integers, Sequences, FiniteSets, TLC

VARIABLES auctions, bids, system_status, verified, bid_context, now, reply,
          inc_x, inc_y, inc_fx, inc_fy,
          submissions, next_message_id, decision, listing, inflight, deciding,
          session_min_bid, wizard

dbVars  == <<auctions, bids>>
incVars == <<inc_x, inc_y, inc_fx, inc_fy>>
subVars == <<submissions, next_message_id, decision>>
extVars == <<listing, inflight, deciding, session_min_bid, wizard>>
vars    == <<auctions, bids, system_status, verified, bid_context, now, reply,
             inc_x, inc_y, inc_fx, inc_fy,
             submissions, next_message_id, decision, listing, inflight, deciding,
             session_min_bid, wizard>>

(* ------------------------------ bounds --------------------------------- *)
MaxAuctions == 2
MaxBids == 2
MaxTime == 0
MaxRef == 1
MaxK == 105
MaxSubmissions == 2

(* ------------------------------ inputs --------------------------------- *)
Null == <<>>
Some(v) == <<v>>

Users == {1, 2}
ADMINS == {1}
UserNames == [u \in Users |-> IF u = 1 THEN <<"@", "a">> ELSE <<"@", "b", "_", "c">>]
ItemTexts == {"", "item"}
PhotoIds == {Null, Some("photo")}
BasePrices == {5000}
CreatePrices == {0, 5000}
BidAmounts == {5999, 6000, 6999, 7000}
\* float('inf'), or any amount so large that adding an increment leaves it as it is
Inf == 1000000000
ChannelRefs == {Null} \cup {Some(r) : r \in 1..MaxRef}
Submitters == Users \ ADMINS
Clicks == {1, 2}
SubmitCategories == {"tms", "shiny"}
SubmitPrices == {5000}
ThresholdAmounts == {6000, 7000}
IncSamples == {k * 1000 : k \in 0..MaxK} \cup {k * 1000 - 1 : k \in 1..MaxK}
IncInputs == {Null} \cup {Some(x) : x \in IncSamples}

(* --------------------------- pure functions ---------------------------- *)
get_min_increment_le(current_bid) ==
    IF current_bid = Null \/ current_bid[1] = 0 THEN 1000
    ELSE LET c == current_bid[1] IN
         IF c <= 20000 THEN 1000
         ELSE IF c <= 40000 THEN 2000
         ELSE IF c <= 70000 THEN 3000
         ELSE IF c <= 100000 THEN 4000
         ELSE 5000

get_min_increment(current_bid) ==
    IF current_bid = Null \/ current_bid[1] = 0 THEN 1000
    ELSE LET c == current_bid[1] IN
         IF c < 20000 THEN 1000
         ELSE IF c < 40000 THEN 2000
         ELSE IF c < 70000 THEN 3000
         ELSE IF c < 100000 THEN 4000
         ELSE 5000

EscapeChars == {"_", "*", "BACKTICK", "["}

RECURSIVE escape_markdown(_)
escape_markdown(text) ==
    IF text = <<>> THEN <<>>
    ELSE IF Head(text) \in EscapeChars
         THEN <<"\\", Head(text)>> \o escape_markdown(Tail(text))
         ELSE <<Head(text)>> \o escape_markdown(Tail(text))

NoneSentinel == <<"N", "o", "n", "e">>

(* ------------------------- rows and queries ---------------------------- *)
\* SELECT * FROM auctions WHERE auction_id=?   (None when there is no row)
get_auction(auction_id) ==
    IF \E i \in DOMAIN auctions : auctions[i].auction_id = auction_id
    THEN Some(auctions[CHOOSE i \in DOMAIN auctions : auctions[i].auction_id = auction_id])
    ELSE Null

\* WHERE auction_id=? AND is_active=1 over a bids table bs (row positions)
ActiveBidsIn(bs, auction_id) ==
    {i \in DOMAIN bs : bs[i].auction_id = auction_id /\ bs[i].is_active}

\* ORDER BY amount DESC LIMIT 1: every row the store may return first
TopBidsIn(bs, auction_id) ==
    {i \in ActiveBidsIn(bs, auction_id) :
        \A j \in ActiveBidsIn(bs, auction_id) : bs[j].amount <= bs[i].amount}

\* ORDER BY timestamp DESC, bid_id DESC LIMIT 1
Later(b1, b2) ==
    \/ b1.timestamp > b2.timestamp
    \/ b1.timestamp = b2.timestamp /\ b1.bid_id >= b2.bid_id

LastBids_oldest(auction_id) ==
    {i \in ActiveBidsIn(bids, auction_id) :
        \A j \in ActiveBidsIn(bids, auction_id) : Later(bids[j], bids[i])}

LastBids_any(auction_id) ==
    {i \in DOMAIN bids : bids[i].auction_id = auction_id /\
        \A j \in DOMAIN bids : bids[j].auction_id = auction_id => Later(bids[i], bids[j])}

LastBids(auction_id) ==
    {i \in ActiveBidsIn(bids, auction_id) :
        \A j \in ActiveBidsIn(bids, auction_id) : Later(bids[i], bids[j])}

\* AUTOINCREMENT keys: rows are never deleted, so the next key is the count + 1
NextAuctionId_reuse == IF Len(auctions) = 0 THEN 1 ELSE Len(auctions)

NextAuctionId == Len(auctions) + 1

NextBidId == Len(bids) + 1

\* truth value of an optional integer argument (None and 0 are falsy)
Truthy(opt) == opt # Null /\ opt[1] # 0

(* ------------------------------ createAuction -------------------------- *)
\* SELECT 1 FROM auctions WHERE channel_message_id=?
RefExists_never(channel_msg_id) == FALSE

RefExists(channel_msg_id) ==
    \E i \in DOMAIN auctions : auctions[i].channel_message_id = channel_msg_id

NewAuctionRow(item_text, photo_id, base_price, channel_msg_id) ==
    [auction_id |-> NextAuctionId, item_text |-> item_text,
     photo_id |-> IF photo_id # Null /\ photo_id[1] # "" THEN photo_id ELSE Null,
     base_price |-> base_price, current_bid |-> Null, current_bidder |-> Null,
     previous_bidder |-> Null, is_active |-> TRUE,
     channel_message_id |-> channel_msg_id]

\* what the last Ledger operation was given and what it answered: the caller
\* (user), the auction and amount it read, its outcome and its return value;
\* args holds the arguments of a direct save_auction call
Reply(op, user, auction_id, amount, result, ret) ==
    [op |-> op, user |-> user, auction_id |-> auction_id, amount |-> amount,
     result |-> result, ret |-> ret, args |-> <<>>]

SaveReply(args, auction_id, result, ret) ==
    [op |-> "save_auction", user |-> 0, auction_id |-> auction_id, amount |-> 0,
     result |-> result, ret |-> ret, args |-> args]

\* if not item_text or base_price is None: raise ValueError
MissingFields_falsy(item_text, base_price) == item_text = "" \/ ~Truthy(base_price)

MissingFields(item_text, base_price) == item_text = "" \/ base_price = Null

\* save_auction(item_text, photo_id, base_price, channel_msg_id)
save_auction(item_text, photo_id, base_price, channel_msg_id) ==
    /\ IF MissingFields(item_text, base_price)
       THEN /\ reply' = SaveReply(<<item_text, photo_id, base_price, channel_msg_id>>,
                                  0, "error", Null)
            /\ UNCHANGED dbVars
       ELSE IF Truthy(channel_msg_id) /\ RefExists(channel_msg_id)
       THEN /\ reply' = SaveReply(<<item_text, photo_id, base_price, channel_msg_id>>,
                                  0, "duplicate", Null)
            /\ UNCHANGED dbVars
       ELSE /\ Len(auctions) < MaxAuctions
            /\ auctions' = Append(auctions,
                   NewAuctionRow(item_text, photo_id, base_price[1], channel_msg_id))
            /\ reply' = SaveReply(<<item_text, photo_id, base_price, channel_msg_id>>,
                                  NextAuctionId, "created", Some(NextAuctionId))
            /\ UNCHANGED bids
    /\ UNCHANGED <<system_status, verified, bid_context, now, incVars, subVars, extVars>>

\* save_auction when the INSERT raises (sqlite3.IntegrityError on a NOT NULL
\* or key constraint): the checks before it run as usual, the except block
\* logs and re-raises, and the connection closes without commit
save_auction_insert_raises(item_text, photo_id, base_price, channel_msg_id) ==
    /\ IF MissingFields(item_text, base_price)
       THEN reply' = SaveReply(<<item_text, photo_id, base_price, channel_msg_id>>,
                               0, "error", Null)
       ELSE IF Truthy(channel_msg_id) /\ RefExists(channel_msg_id)
       THEN reply' = SaveReply(<<item_text, photo_id, base_price, channel_msg_id>>,
                               0, "duplicate", Null)
       ELSE reply' = SaveReply(<<item_text, photo_id, base_price, channel_msg_id>>,
                               0, "error", Null)
    /\ UNCHANGED <<dbVars, system_status, verified, bid_context, now, incVars, subVars,
                   extVars>>

(* ------------------------------ transactions --------------------------- *)
\* the step of a handler that raises (none: every step succeeds): a statement
\* of the store, or an outbound call made after the commit
StoreFaults == {"insert", "deactivate", "update", "commit"}
BidFaults == {"none", "read", "insert", "update", "commit", "caption", "display", "fallback",
              "notify"}
RemoveFaults == {"none", "read", "deactivate", "update", "commit", "display"}

\* conn.commit() is the last statement of the with block: it is reached when
\* no statement of the block raised, and before any outbound call
Committed_last(fault) == fault = "none"

Committed(fault) == fault \notin StoreFaults

\* with db_connection() as conn: the tables after the block, given the writes
\* made when it ended (work); without commit, close() discards them
db_connection_autocommit(before, work, committed) == work

db_connection(before, work, committed) == IF committed THEN work ELSE before

\* get_auction inside its try/except: a failing read is logged and answered
\* with None, as a missing row is
get_auction_try(auction_id, fault) ==
    IF fault = "read" THEN Null ELSE get_auction(auction_id)

(* -------------------------------- recordBid ---------------------------- *)
\* the row fetched as prev_bidder: (bidder_id, bidder_name, amount) or None
PrevBidders(auction_id) ==
    IF TopBidsIn(bids, auction_id) = {} THEN {Null}
    ELSE {Some(<<bids[i].bidder_id, bids[i].bidder_name, bids[i].amount>>) :
             i \in TopBidsIn(bids, auction_id)}

\* UPDATE auctions SET current_bid=?, previous_bidder=COALESCE(current_bidder,'None'),
\*                     current_bidder=? WHERE auction_id=?
AuctionAfterBid_keepprev(row, amount, escaped_bidder_name) ==
    [row EXCEPT !.current_bid = Some(amount),
                !.current_bidder = Some(escaped_bidder_name)]

AuctionAfterBid(row, amount, escaped_bidder_name) ==
    [row EXCEPT !.current_bid = Some(amount),
                !.previous_bidder = IF row.current_bidder # Null THEN row.current_bidder
                                    ELSE Some(NoneSentinel),
                !.current_bidder = Some(escaped_bidder_name)]

NewBidRow(auction_id, bidder_id, escaped_bidder_name, amount, ts) ==
    [bid_id |-> NextBidId, auction_id |-> auction_id, bidder_id |-> bidder_id,
     bidder_name |-> escaped_bidder_name, amount |-> amount, timestamp |-> ts,
     is_active |-> TRUE]

\* record_bid(auction_id, bidder_id, bidder_name, amount): writes both tables;
\* ts is the CURRENT_TIMESTAMP the store reads for the new row
record_bid(auction_id, bidder_id, bidder_name, amount, ts, fault) ==
    LET escaped_bidder_name == escape_markdown(bidder_name)
        inserted == Append(bids, NewBidRow(auction_id, bidder_id, escaped_bidder_name,
                                           amount, ts))
        updated == [i \in DOMAIN auctions |->
                      IF auctions[i].auction_id = auction_id
                      THEN AuctionAfterBid(auctions[i], amount, escaped_bidder_name)
                      ELSE auctions[i]]
        work == IF fault = "insert" THEN <<auctions, bids>>
                ELSE IF fault = "update" THEN <<auctions, inserted>>
                ELSE <<updated, inserted>>
        after == db_connection(<<auctions, bids>>, work, Committed(fault))
    IN  /\ auctions' = after[1]
        /\ bids' = after[2]
        /\ now' = IF Committed(fault) THEN ts ELSE now

\* current_amount = auction.get('current_bid') or auction.get('base_price', 0)
CurrentAmount_base(auction) == auction.base_price

CurrentAmount(auction) ==
    IF Truthy(auction.current_bid) THEN auction.current_bid[1] ELSE auction.base_price

\* float addition: an absorbing amount plus an increment is that amount
Plus(a, b) == IF a = Inf THEN Inf ELSE a + b

\* min_bid = current_amount + get_min_increment(current_amount)
MinBid_noinc(auction) == CurrentAmount(auction)

MinBid(auction) ==
    Plus(CurrentAmount(auction), get_min_increment(Some(CurrentAmount(auction))))

\* rows the bids table may hold when a bid is taken: a bid of an absorbing
\* amount gets one row more, so that a tie of two can be followed by a third
BidCap(bid_amount) == IF bid_amount = Inf THEN MaxBids + 1 ELSE MaxBids

\* the answer of the bid handler after record_bid: an exception that reaches
\* the outer except (store or caption) or the 'placed' reply
BidResult(fault) == IF fault \in StoreFaults \cup {"caption"} THEN "error" ELSE "placed"

\* if bid_amount < min_bid: reject
BidTooLow_le(bid_amount, min_bid) == bid_amount <= min_bid

BidTooLow(bid_amount, min_bid) == bid_amount < min_bid

\* check_system_status(status_type): the wrapped handler runs when the flag
\* read from system_status is set
check_system_status_open(status_type) == TRUE

check_system_status(status_type) == system_status[status_type]

\* verified_only: admins pass, others need a verified_users row
PassesVerified(u) == u \in ADMINS \/ u \in verified

(* ------------------------------ bid handler ---------------------------- *)
\* start(update, context) with the deep link argument bid_<auction_id>
start(u, auction_id) ==
    /\ IF get_auction(auction_id) = Null
       THEN UNCHANGED bid_context
       ELSE bid_context' = [bid_context EXCEPT ![u] = Some([auction_id |-> auction_id])]
    /\ UNCHANGED <<dbVars, system_status, verified, now, reply, incVars, subVars, extVars>>

\* start(update, context) with everything it keeps in the session: besides
\* the auction id, the minimum bid computed when the session is opened
start_session(u, auction_id) ==
    /\ IF get_auction(auction_id) = Null
       THEN UNCHANGED <<bid_context, session_min_bid>>
       ELSE /\ bid_context' = [bid_context EXCEPT ![u] = Some([auction_id |-> auction_id])]
            /\ session_min_bid' = [session_min_bid EXCEPT ![u] =
                    Some(MinBid(get_auction(auction_id)[1]))]
    /\ UNCHANGED <<dbVars, system_status, verified, now, reply, incVars, subVars,
                   listing, inflight, deciding, wizard>>

\* the minimum the bid handler compares the amount with: computed from the
\* auction row it has just read, not taken from the session
ValidationMinBid_cached(u, auction) == session_min_bid[u][1]

ValidationMinBid(u, auction) == MinBid(auction)

\* handle_bid_amount behind @verified_only and @check_system_status("auctions_open");
\* text is the parsed message: None when float() raises ValueError
handle_bid_amount(u, text, fault) ==
    /\ IF ~PassesVerified(u)
       THEN reply' = Reply("bid", u, 0, 0, "verification_required", Null) /\ UNCHANGED <<dbVars, now>>
       ELSE IF ~check_system_status("auctions_open")
       THEN reply' = Reply("bid", u, 0, 0, "disabled", Null) /\ UNCHANGED <<dbVars, now>>
       ELSE IF bid_context[u] = Null
       THEN reply' = Reply("bid", u, 0, 0, "no_session", Null) /\ UNCHANGED <<dbVars, now>>
       ELSE IF text = Null
       THEN reply' = Reply("bid", u, 0, 0, "invalid_number", Null) /\ UNCHANGED <<dbVars, now>>
       ELSE LET auction_id == bid_context[u][1].auction_id
                auction == get_auction_try(auction_id, fault)
                bid_amount == text[1]
            IN  IF auction = Null \/ ~auction[1].is_active
                THEN reply' = Reply("bid", u, auction_id, bid_amount, "not_active", Null)
                     /\ UNCHANGED <<dbVars, now>>
                ELSE IF BidTooLow(bid_amount, ValidationMinBid(u, auction[1]))
                THEN reply' = Reply("bid", u, auction_id, bid_amount, "too_low", Null)
                     /\ UNCHANGED <<dbVars, now>>
                ELSE /\ Len(bids) < BidCap(bid_amount)
                     /\ \E prev_bidder \in PrevBidders(auction_id) :
                           reply' = Reply("bid", u, auction_id, bid_amount, BidResult(fault),
                                          IF Committed(fault) THEN prev_bidder ELSE Null)
                     /\ \E ts \in now..MaxTime :
                           record_bid(auction_id, u, UserNames[u], bid_amount, ts, fault)
    /\ UNCHANGED <<system_status, verified, bid_context, incVars, subVars, extVars>>

(* ----------------------- bid handler, step by step ---------------------- *)
\* handle_bid_amount up to the call of record_bid: the gates, the parse, the
\* read of the auction (get_auction, its own connection) and the validation;
\* a bid that passes is held in the handler's locals (inflight)
handle_bid_amount_validate(u, text) ==
    /\ inflight[u] = Null
    /\ IF /\ PassesVerified(u)
          /\ check_system_status("auctions_open")
          /\ bid_context[u] # Null
          /\ text # Null
          /\ get_auction(bid_context[u][1].auction_id) # Null
          /\ get_auction(bid_context[u][1].auction_id)[1].is_active
          /\ ~BidTooLow(text[1], MinBid(get_auction(bid_context[u][1].auction_id)[1]))
       THEN inflight' = [inflight EXCEPT ![u] =
                Some([auction_id |-> bid_context[u][1].auction_id, bid_amount |-> text[1]])]
       ELSE UNCHANGED inflight
    /\ UNCHANGED <<dbVars, system_status, verified, bid_context, now, reply, incVars,
                   subVars, listing, deciding, session_min_bid, wizard>>

\* the rest of handle_bid_amount: record_bid (a second connection) with the
\* amount validated earlier
handle_bid_amount_record_recheck(u) ==
    /\ inflight[u] # Null
    /\ inflight' = [inflight EXCEPT ![u] = Null]
    /\ IF BidTooLow(inflight[u][1].bid_amount,
                    MinBid(get_auction(inflight[u][1].auction_id)[1]))
       THEN UNCHANGED <<dbVars, now>>
       ELSE /\ Len(bids) < MaxBids
            /\ \E ts \in now..MaxTime :
                  record_bid(inflight[u][1].auction_id, u, UserNames[u],
                             inflight[u][1].bid_amount, ts, "none")
    /\ UNCHANGED <<system_status, verified, bid_context, reply, incVars, subVars, listing,
                   deciding, session_min_bid, wizard>>

handle_bid_amount_record(u) ==
    /\ inflight[u] # Null
    /\ inflight' = [inflight EXCEPT ![u] = Null]
    /\ Len(bids) < MaxBids
    /\ \E ts \in now..MaxTime :
          record_bid(inflight[u][1].auction_id, u, UserNames[u],
                     inflight[u][1].bid_amount, ts, "none")
    /\ UNCHANGED <<system_status, verified, bid_context, reply, incVars, subVars, listing,
                   deciding, session_min_bid, wizard>>

(* ------------------------------ retractLastBid ------------------------- *)
\* the row fetched as new_top: (bidder_name, amount) or None
NewTops(bs, auction_id) ==
    IF TopBidsIn(bs, auction_id) = {} THEN {Null}
    ELSE {Some(<<bs[i].bidder_name, bs[i].amount>>) : i \in TopBidsIn(bs, auction_id)}

\* the two UPDATE auctions statements of remove_last_bid
AuctionAfterRemove_stale(row, new_top, bidder_name) ==
    IF new_top # Null
    THEN [row EXCEPT !.current_bid = Some(new_top[1][2]),
                     !.current_bidder = Some(new_top[1][1]),
                     !.previous_bidder = Some(bidder_name)]
    ELSE [row EXCEPT !.previous_bidder = Some(bidder_name)]

AuctionAfterRemove(row, new_top, bidder_name) ==
    IF new_top # Null
    THEN [row EXCEPT !.current_bid = Some(new_top[1][2]),
                     !.current_bidder = Some(new_top[1][1]),
                     !.previous_bidder = Some(bidder_name)]
    ELSE [row EXCEPT !.current_bid = Null,
                     !.current_bidder = Null,
                     !.previous_bidder = Some(bidder_name)]

\* the value remove_last_bid returns: new_top, or (None, None) when no bid remains
RemoveResult_none(new_top) ==
    IF new_top # Null THEN Some(<<Some(new_top[1][1]), Some(new_top[1][2])>>)
    ELSE Null

RemoveResult(new_top) ==
    IF new_top # Null THEN Some(<<Some(new_top[1][1]), Some(new_top[1][2])>>)
    ELSE Some(<<Null, Null>>)

\* remove_last_bid(auction_id) returning ret (None: no active bid to remove)
remove_last_bid(auction_id, ret, fault) ==
    IF LastBids(auction_id) = {}
    THEN ret = Null /\ UNCHANGED dbVars
    ELSE \E last \in LastBids(auction_id) :
         LET bids1 == [i \in DOMAIN bids |->
                          IF bids[i].bid_id = bids[last].bid_id
                          THEN [bids[i] EXCEPT !.is_active = FALSE] ELSE bids[i]]
         IN  \E new_top \in NewTops(bids1, auction_id) :
             LET auctions1 == [i \in DOMAIN auctions |->
                      IF auctions[i].auction_id = auction_id
                      THEN AuctionAfterRemove(auctions[i], new_top, bids[last].bidder_name)
                      ELSE auctions[i]]
                 work == IF fault = "deactivate" THEN <<auctions, bids>>
                         ELSE IF fault = "update" THEN <<auctions, bids1>>
                         ELSE <<auctions1, bids1>>
                 after == db_connection(<<auctions, bids>>, work, Committed(fault))
             IN  /\ auctions' = after[1]
                 /\ bids' = after[2]
                 /\ ret = IF Committed(fault) THEN RemoveResult(new_top) ELSE Null

RemoveRets ==
    {Null, Some(<<Null, Null>>)} \cup
    {Some(<<Some(bids[i].bidder_name), Some(bids[i].amount)>>) : i \in DOMAIN bids}

\* handle_remove_bid(update, context); args is context.args[0] or None
handle_remove_bid(u, args, fault) ==
    /\ IF u \notin ADMINS
       THEN reply' = Reply("remove", 0, 0, 0, "admin_only", Null) /\ UNCHANGED dbVars
       ELSE IF args = Null
       THEN reply' = Reply("remove", 0, 0, 0, "usage", Null) /\ UNCHANGED dbVars
       ELSE IF get_auction_try(args[1], fault) = Null
       THEN reply' = Reply("remove", 0, args[1], 0, "not_found", Null) /\ UNCHANGED dbVars
       ELSE \E ret \in RemoveRets :
              /\ remove_last_bid(args[1], ret, fault)
              /\ reply' = Reply("remove", 0, args[1], 0,
                                IF ret = Null THEN "no_active_bids" ELSE "removed", ret)
    /\ UNCHANGED <<system_status, verified, bid_context, now, incVars, subVars, extVars>>

(* ------------------------------ admin gates ---------------------------- *)
\* @admin_only start_auction / end_auction
start_auction(u) ==
    /\ IF u \in ADMINS
       THEN system_status' = [system_status EXCEPT !.auctions_open = TRUE]
       ELSE UNCHANGED system_status
    /\ UNCHANGED <<dbVars, verified, bid_context, now, reply, incVars, subVars, extVars>>

end_auction_deactivate(u) ==
    /\ IF u \in ADMINS
       THEN /\ system_status' = [system_status EXCEPT !.auctions_open = FALSE]
            /\ auctions' = [k \in DOMAIN auctions |-> [auctions[k] EXCEPT !.is_active = FALSE]]
       ELSE UNCHANGED <<system_status, auctions>>
    /\ UNCHANGED <<bids, verified, bid_context, now, reply, incVars, subVars, extVars>>

end_auction(u) ==
    /\ IF u \in ADMINS
       THEN system_status' = [system_status EXCEPT !.auctions_open = FALSE]
       ELSE UNCHANGED system_status
    /\ UNCHANGED <<dbVars, verified, bid_context, now, reply, incVars, subVars, extVars>>

\* @admin_only start_submission / end_submission
start_submission_anyone(u) ==
    /\ system_status' = [system_status EXCEPT !.submissions_open = TRUE]
    /\ UNCHANGED <<dbVars, verified, bid_context, now, reply, incVars, subVars, extVars>>

start_submission(u) ==
    /\ IF u \in ADMINS
       THEN system_status' = [system_status EXCEPT !.submissions_open = TRUE]
       ELSE UNCHANGED system_status
    /\ UNCHANGED <<dbVars, verified, bid_context, now, reply, incVars, subVars, extVars>>

end_submission(u) ==
    /\ IF u \in ADMINS
       THEN system_status' = [system_status EXCEPT !.submissions_open = FALSE]
       ELSE UNCHANGED system_status
    /\ UNCHANGED <<dbVars, verified, bid_context, now, reply, incVars, subVars, extVars>>

(* --------------------------- submission pipeline ----------------------- *)
\* the price messages a submitter sends, as sequences of characters
PriceTexts ==
    {<<"5", "k">>, <<"-", "5", "k">>, <<"B", "a", "s", "e", ":", " ", "0">>, <<"x">>,
     <<"5", ",", "0", "0", "0">>, <<"5", "0", ",", "0">>}

Digits == <<"0", "1", "2", "3", "4", "5", "6", "7", "8", "9">>

DigitValue(c) == (CHOOSE i \in DOMAIN Digits : Digits[i] = c) - 1

IsDigit(c) == \E i \in DOMAIN Digits : Digits[i] = c

\* str.lower() on the letters the price messages use
Lower(text) ==
    [i \in DOMAIN text |-> IF text[i] = "B" THEN "b" ELSE IF text[i] = "K" THEN "k"
                           ELSE text[i]]

\* str.replace(pat, ""): every non-overlapping occurrence, left to right
RECURSIVE Remove(_, _)
Remove(text, pat) ==
    IF Len(text) < Len(pat) THEN text
    ELSE IF SubSeq(text, 1, Len(pat)) = pat
    THEN Remove(SubSeq(text, Len(pat) + 1, Len(text)), pat)
    ELSE <<text[1]>> \o Remove(Tail(text), pat)

\* str.strip()
RECURSIVE Strip(_)
Strip(text) ==
    IF text = <<>> THEN text
    ELSE IF text[1] = " " THEN Strip(Tail(text))
    ELSE IF text[Len(text)] = " " THEN Strip(SubSeq(text, 1, Len(text) - 1))
    ELSE text

\* the value of a run of decimal digits
RECURSIVE DigitsValue(_)
DigitsValue(ds) ==
    IF ds = <<>> THEN 0
    ELSE 10 * DigitsValue(SubSeq(ds, 1, Len(ds) - 1)) + DigitValue(ds[Len(ds)])

\* float(text) on an optionally signed run of digits; None stands for the
\* ValueError any other text raises here
ParseFloat(text) ==
    LET signed == text # <<>> /\ text[1] \in {"-", "+"}
        ds == IF signed THEN Tail(text) ELSE text
    IN  IF ds # <<>> /\ \A i \in DOMAIN ds : IsDigit(ds[i])
        THEN Some(IF signed /\ text[1] = "-" THEN 0 - DigitsValue(ds) ELSE DigitsValue(ds))
        ELSE Null

\* \d+ : a non-empty run of digits
AllDigits(text) == text # <<>> /\ \A i \in DOMAIN text : IsDigit(text[i])

\* \d{1,3}(,\d{3})* : up to three digits, then groups of a comma and three
RECURSIVE CommaGroups(_)
CommaGroups(text) ==
    \/ text = <<>>
    \/ /\ Len(text) >= 4
       /\ text[1] = ","
       /\ AllDigits(SubSeq(text, 2, 4))
       /\ CommaGroups(SubSeq(text, 5, Len(text)))

Grouped(text) ==
    \E n \in 1..3 :
        /\ Len(text) >= n
        /\ AllDigits(SubSeq(text, 1, n))
        /\ CommaGroups(SubSeq(text, n + 1, Len(text)))

\* leading white space, as \s* consumes it
RECURSIVE SkipSpaces(_)
SkipSpaces(text) ==
    IF text # <<>> /\ text[1] = " " THEN SkipSpaces(Tail(text)) ELSE text

\* Filters.regex(r'(?i)^(base:)?\s*(\d+k?|\d{1,3}(,\d{3})*)$') of the
\* GET_BASE_PRICE state: the messages that reach handle_base_price
PriceFilter_all(text) == TRUE

PriceFilter(text) ==
    LET t == Lower(text)
        base == <<"b", "a", "s", "e", ":">>
        rest == SkipSpaces(IF Len(t) >= 5 /\ SubSeq(t, 1, 5) = base
                           THEN SubSeq(t, 6, Len(t)) ELSE t)
    IN  \/ AllDigits(rest)
        \/ Len(rest) >= 2 /\ rest[Len(rest)] = "k"
             /\ AllDigits(SubSeq(rest, 1, Len(rest) - 1))
        \/ Grouped(rest)

\* extract_base_price(text): None, or the price as an int
extract_base_price(text) ==
    IF text = <<>> THEN Null
    ELSE LET t == Strip(Remove(Remove(Lower(text), <<"b", "a", "s", "e", ":">>), <<",">>))
         IN  IF t = <<"0">> THEN Some(0)
             ELSE IF t # <<>> /\ t[Len(t)] = "k"
             THEN LET f == ParseFloat(SubSeq(t, 1, Len(t) - 1))
                  IN  IF f = Null THEN Null ELSE Some(f[1] * 1000)
             ELSE ParseFloat(t)

\* the payload a finished /add wizard saves: category and base price (the
\* photo of a Pokemon submission is data['nature']['photo'])
SubmissionData(category, base_price) == [category |-> category, base_price |-> base_price]

NextSubmissionId == Len(submissions) + 1

\* save_submission(user_id, data): INSERT INTO submissions (user_id, data);
\* status defaults to 'pending', channel_message_id to NULL
save_submission(user_id, data) ==
    /\ Len(submissions) < MaxSubmissions
    /\ submissions' = Append(submissions,
          [submission_id |-> NextSubmissionId, user_id |-> user_id, data |-> data,
           status |-> "pending", channel_message_id |-> Null])
    /\ UNCHANGED <<dbVars, system_status, verified, bid_context, now, reply, incVars,
                   next_message_id, decision, extVars>>

\* handle_base_price(update, context) -> handle_tm_price / handle_pokemon_price
\* with a complete wizard session of the given category: an unreadable price
\* asks again, any other is saved with the submission
handle_base_price(u, category, text) ==
    LET base_price == extract_base_price(text)
    IN  IF base_price = Null
        THEN UNCHANGED vars
        ELSE save_submission(u, SubmissionData(category, base_price[1]))

\* a text message in the GET_BASE_PRICE state of the /add conversation: the
\* handler runs only for a message the state's filter accepts
get_base_price_state(u, category, text) ==
    IF PriceFilter(text) THEN handle_base_price(u, category, text) ELSE UNCHANGED vars

\* start_add behind @verified_only and @check_system_status("submissions_open"):
\* the entry point of the /add conversation; wizard[u] says that u is in it
start_add(u) ==
    /\ IF PassesVerified(u) /\ check_system_status("submissions_open")
       THEN wizard' = [wizard EXCEPT ![u] = TRUE]
       ELSE UNCHANGED wizard
    /\ UNCHANGED <<dbVars, system_status, verified, bid_context, now, reply, incVars,
                   subVars, listing, inflight, deciding, session_min_bid>>

\* the GET_BASE_PRICE state for a user in the conversation, the earlier
\* prompts answered: a message the filter accepts and extract_base_price
\* reads is saved (save_submission) and ends the conversation
add_base_price(u, category, text) ==
    /\ wizard[u]
    /\ IF PriceFilter(text) /\ extract_base_price(text) # Null
       THEN /\ Len(submissions) < MaxSubmissions
            /\ submissions' = Append(submissions,
                  [submission_id |-> NextSubmissionId, user_id |-> u,
                   data |-> SubmissionData(category, extract_base_price(text)[1]),
                   status |-> "pending", channel_message_id |-> Null])
            /\ wizard' = [wizard EXCEPT ![u] = FALSE]
       ELSE UNCHANGED <<submissions, wizard>>
    /\ UNCHANGED <<dbVars, system_status, verified, bid_context, now, reply, incVars,
                   next_message_id, decision, listing, inflight, deciding, session_min_bid>>

\* SELECT * FROM submissions WHERE submission_id=?   (None when there is no row)
get_submission_any(submission_id) ==
    IF submissions # <<>> THEN Some(submissions[1]) ELSE Null

get_submission(submission_id) ==
    IF \E i \in DOMAIN submissions : submissions[i].submission_id = submission_id
    THEN Some(submissions[CHOOSE i \in DOMAIN submissions :
                             submissions[i].submission_id = submission_id])
    ELSE Null

\* format_tm_auction_item / format_pokemon_auction_item
ItemTextOf(data) == IF data.category = "tms" THEN "tm item" ELSE "pokemon item"

\* photo_id=None for a TM, submission_data['nature']['photo'] otherwise
PhotoOf(data) == IF data.category = "tms" THEN Null ELSE Some("photo")

\* UPDATE submissions SET status=? WHERE submission_id=?
SetStatus(subs, submission_id, status) ==
    [i \in DOMAIN subs |->
        IF subs[i].submission_id = submission_id
        THEN [subs[i] EXCEPT !.status = status] ELSE subs[i]]

\* UPDATE submissions SET status='approved', channel_message_id=? WHERE submission_id=?
SetApproved_refonly(subs, submission_id, message_id) ==
    [i \in DOMAIN subs |->
        IF subs[i].submission_id = submission_id
        THEN [subs[i] EXCEPT !.channel_message_id = Some(message_id)]
        ELSE subs[i]]

SetApproved(subs, submission_id, message_id) ==
    [i \in DOMAIN subs |->
        IF subs[i].submission_id = submission_id
        THEN [subs[i] EXCEPT !.status = "approved", !.channel_message_id = Some(message_id)]
        ELSE subs[i]]

\* UPDATE auctions SET channel_message_id=? WHERE auction_id=?
SetAuctionRef_skip(as, auction_id, message_id) == as

SetAuctionRef(as, auction_id, message_id) ==
    [i \in DOMAIN as |->
        IF as[i].auction_id = auction_id
        THEN [as[i] EXCEPT !.channel_message_id = Some(message_id)] ELSE as[i]]

\* what the last run of handle_verification did: the button pressed, the
\* answer, the statuses it committed in order (trail), the auction it created
\* and the channel message it posted
Decision(action, submission_id, result, trail, auction_id, message_id) ==
    [action |-> action, submission_id |-> submission_id, result |-> result,
     trail |-> trail, auction_id |-> auction_id, message_id |-> message_id]

NoDecision == Decision("none", 0, "none", <<>>, Null, Null)

\* if submission['status'] != 'pending': answer 'already' and return
AlreadyDecided_final(submission) == submission.status \in {"approved", "rejected"}

AlreadyDecided(submission) == submission.status # "pending"

\* the step of handle_verification that raises (none: every step succeeds);
\* stuck: the store fails from save_auction on, so that the UPDATE of the
\* except block raises as well
VerifyFaults == {"none", "mark", "format", "save", "post", "persist", "notify"}

\* status = 'processing' if action == 'verify' else 'rejected'
FirstStatus_processing(action) == "processing"

FirstStatus(action) == IF action = "verify" THEN "processing" ELSE "rejected"

\* the except block of the approval sequence: status='failed'
FailedAfter_keep(subs, submission_id) == subs

FailedAfter(subs, submission_id) == SetStatus(subs, submission_id, "failed")

\* handle_verification(update, context) for the button <action>_<submission_id>
handle_verification(action, submission_id, fault) ==
    LET submission == get_submission(submission_id) IN
    /\ IF submission = Null
       THEN /\ decision' = Decision(action, submission_id, "not_found", <<>>, Null, Null)
            /\ UNCHANGED <<auctions, submissions, next_message_id>>
       ELSE IF AlreadyDecided(submission[1])
       THEN /\ decision' = Decision(action, submission_id, "already", <<>>, Null, Null)
            /\ UNCHANGED <<auctions, submissions, next_message_id>>
       ELSE IF fault = "mark"
       THEN /\ decision' = Decision(action, submission_id, "processing_failed", <<>>,
                                    Null, Null)
            /\ UNCHANGED <<auctions, submissions, next_message_id>>
       ELSE IF action # "verify"
       THEN /\ submissions' = SetStatus(submissions, submission_id, FirstStatus(action))
            /\ decision' = Decision(action, submission_id, "rejected",
                                    <<FirstStatus(action)>>, Null, Null)
            /\ UNCHANGED <<auctions, next_message_id>>
       ELSE LET data == submission[1].data
                processing == SetStatus(submissions, submission_id, FirstStatus(action))
                auction_id == NextAuctionId
                created == Append(auctions,
                              NewAuctionRow(ItemTextOf(data), PhotoOf(data),
                                            data.base_price, Null))
                message_id == next_message_id
            IN  IF fault = "stuck"
                THEN /\ submissions' = processing
                     /\ decision' = Decision(action, submission_id, "processing_failed",
                                             <<FirstStatus(action)>>, Null, Null)
                     /\ UNCHANGED <<auctions, next_message_id>>
                ELSE IF fault \in {"format", "save"}
                THEN /\ submissions' = FailedAfter(processing, submission_id)
                     /\ decision' = Decision(action, submission_id, "processing_failed",
                                             <<FirstStatus(action), "failed">>, Null, Null)
                     /\ UNCHANGED <<auctions, next_message_id>>
                ELSE /\ Len(auctions) < MaxAuctions
                     /\ IF fault = "post"
                        THEN /\ auctions' = created
                             /\ submissions' = FailedAfter(processing, submission_id)
                             /\ decision' = Decision(action, submission_id,
                                     "processing_failed", <<FirstStatus(action), "failed">>,
                                     Some(auction_id), Null)
                             /\ UNCHANGED next_message_id
                        ELSE IF fault = "persist"
                        THEN /\ auctions' = created
                             /\ submissions' = FailedAfter(processing, submission_id)
                             /\ next_message_id' = next_message_id + 1
                             /\ decision' = Decision(action, submission_id,
                                     "processing_failed", <<FirstStatus(action), "failed">>,
                                     Some(auction_id), Some(message_id))
                        ELSE IF fault = "notify"
                        THEN /\ auctions' = SetAuctionRef(created, auction_id, message_id)
                             /\ submissions' = FailedAfter(
                                     SetApproved(processing, submission_id, message_id),
                                     submission_id)
                             /\ next_message_id' = next_message_id + 1
                             /\ decision' = Decision(action, submission_id,
                                     "processing_failed",
                                     <<FirstStatus(action), "approved", "failed">>,
                                     Some(auction_id), Some(message_id))
                        ELSE /\ auctions' = SetAuctionRef(created, auction_id, message_id)
                             /\ submissions' = SetApproved(processing, submission_id,
                                                           message_id)
                             /\ next_message_id' = next_message_id + 1
                             /\ decision' = Decision(action, submission_id, "approved",
                                     <<FirstStatus(action), "approved">>,
                                     Some(auction_id), Some(message_id))
    /\ UNCHANGED <<bids, system_status, verified, bid_context, now, reply, incVars, extVars>>

(* --------------------- decision handler, step by step ------------------- *)
\* handle_verification up to its status check, for the button press c: the
\* read of the submission (get_submission, its own connection) and the two
\* early returns; a pending submission is held in the handler's locals
handle_verification_read(c, action, submission_id) ==
    LET submission == get_submission(submission_id) IN
    /\ deciding[c] = Null
    /\ IF submission = Null
       THEN /\ decision' = Decision(action, submission_id, "not_found", <<>>, Null, Null)
            /\ UNCHANGED deciding
       ELSE IF AlreadyDecided(submission[1])
       THEN /\ decision' = Decision(action, submission_id, "already", <<>>, Null, Null)
            /\ UNCHANGED deciding
       ELSE /\ deciding' = [deciding EXCEPT ![c] =
                    Some([action |-> action, submission_id |-> submission_id,
                          data |-> submission[1].data])]
            /\ UNCHANGED decision
    /\ UNCHANGED <<dbVars, system_status, verified, bid_context, now, reply, incVars,
                   submissions, next_message_id, listing, inflight, session_min_bid,
                   wizard>>

\* the rest of handle_verification, every step succeeding: the UPDATE of the
\* status by submission id, save_auction, the channel post and the UPDATE
\* that stores the reference, with the payload read earlier
handle_verification_write(c) ==
    /\ deciding[c] # Null
    /\ deciding' = [deciding EXCEPT ![c] = Null]
    /\ LET action == deciding[c][1].action
           submission_id == deciding[c][1].submission_id
           data == deciding[c][1].data
           processing == SetStatus(submissions, submission_id, FirstStatus(action))
           auction_id == NextAuctionId
           created == Append(auctions,
                         NewAuctionRow(ItemTextOf(data), PhotoOf(data), data.base_price, Null))
           message_id == next_message_id
       IN  IF action # "verify"
           THEN /\ submissions' = processing
                /\ decision' = Decision(action, submission_id, "rejected",
                                        <<FirstStatus(action)>>, Null, Null)
                /\ UNCHANGED <<auctions, next_message_id>>
           ELSE /\ Len(auctions) < MaxAuctions
                /\ auctions' = SetAuctionRef(created, auction_id, message_id)
                /\ submissions' = SetApproved(processing, submission_id, message_id)
                /\ next_message_id' = next_message_id + 1
                /\ decision' = Decision(action, submission_id, "approved",
                                        <<FirstStatus(action), "approved">>,
                                        Some(auction_id), Some(message_id))
    /\ UNCHANGED <<bids, system_status, verified, bid_context, now, reply, incVars,
                   listing, inflight, session_min_bid, wizard>>

(* ------------------------------ listing -------------------------------- *)
\* FROM auctions a LEFT JOIN submissions s ON a.channel_message_id =
\* s.channel_message_id WHERE a.is_active=1: one row per matching submission,
\* one row without data when none matches (NULL never equals NULL)
MatchingSubmissions(as, subs, k) ==
    {i \in DOMAIN subs : /\ as[k].channel_message_id # Null
                         /\ subs[i].channel_message_id # Null
                         /\ subs[i].channel_message_id = as[k].channel_message_id}

JoinedRows_inner(as, subs) ==
    {[auction_id |-> as[k].auction_id, data |-> Some(subs[i].data)] :
        <<k, i>> \in {p \in (DOMAIN as) \X (DOMAIN subs) :
                         as[p[1]].is_active /\ p[2] \in MatchingSubmissions(as, subs, p[1])}}

JoinedRows(as, subs) ==
    {[auction_id |-> as[k].auction_id, data |-> Some(subs[i].data)] :
        <<k, i>> \in {p \in (DOMAIN as) \X (DOMAIN subs) :
                         as[p[1]].is_active /\ p[2] \in MatchingSubmissions(as, subs, p[1])}}
    \cup
    {[auction_id |-> as[k].auction_id, data |-> Null] :
        k \in {j \in DOMAIN as : as[j].is_active /\ MatchingSubmissions(as, subs, j) = {}}}

\* submission_data.get('category', 'nonlegendary') and the if/elif chain
BucketOf(data) ==
    IF data = Null THEN "nonlegendary"
    ELSE IF data[1].category \in {"legendary", "shiny", "tms"} THEN data[1].category
    ELSE "nonlegendary"

\* get_active_auctions_by_category(): the four lists, as the rows they hold
get_active_auctions_by_category(as, subs) ==
    [b \in {"nonlegendary", "shiny", "legendary", "tms"} |->
        {r \in JoinedRows(as, subs) : BucketOf(r.data) = b}]

(* ---------------------------- specification ---------------------------- *)
Init ==
    /\ auctions = <<>>
    /\ bids = <<>>
    /\ system_status = [submissions_open |-> FALSE, auctions_open |-> FALSE]
    /\ verified = Users \ ADMINS
    /\ bid_context = [u \in Users |-> Null]
    /\ now = 0
    /\ reply = Reply("init", 0, 0, 0, "none", Null)
    /\ inc_x = Null /\ inc_y = Null /\ inc_fx = 0 /\ inc_fy = 0
    /\ submissions = <<>>
    /\ next_message_id = 1
    /\ decision = NoDecision
    /\ listing = Null
    /\ inflight = [u \in Users |-> Null]
    /\ deciding = [c \in Clicks |-> Null]
    /\ session_min_bid = [u \in Users |-> Null]
    /\ wizard = [u \in Users |-> FALSE]

SaveAuction ==
    \E item_text \in ItemTexts, photo_id \in PhotoIds,
       base_price \in {Null} \cup {Some(p) : p \in CreatePrices},
       channel_msg_id \in ChannelRefs :
        save_auction(item_text, photo_id, base_price, channel_msg_id)

Start == \E u \in Users, auction_id \in 1..MaxAuctions : start(u, auction_id)

HandleBidAmount ==
    \E u \in Users, text \in {Null} \cup {Some(x) : x \in BidAmounts} :
        handle_bid_amount(u, text, "none")

HandleRemoveBid ==
    \E u \in Users, args \in {Null} \cup {Some(a) : a \in 1..MaxAuctions} :
        handle_remove_bid(u, args, "none")

StartAuction == \E u \in Users : start_auction(u)

EndAuction == \E u \in Users : end_auction(u)

\* the call handle_verification makes: save_auction without channel_msg_id
SaveAuctionNoRef ==
    \E base_price \in BasePrices : save_auction("item", Null, Some(base_price), Null)

Next ==
    \/ SaveAuctionNoRef
    \/ Start
    \/ HandleBidAmount
    \/ HandleRemoveBid
    \/ StartAuction
    \/ EndAuction

Spec == Init /\ [][Next]_vars

\* createAuction alone, over all of its arguments
NextCreate == SaveAuction

SpecCreate == Init /\ [][NextCreate]_vars

\* createAuction with an INSERT that may raise
SaveAuctionInsertRaises ==
    \E item_text \in ItemTexts, photo_id \in PhotoIds,
       base_price \in {Null} \cup {Some(p) : p \in CreatePrices},
       channel_msg_id \in ChannelRefs :
        save_auction_insert_raises(item_text, photo_id, base_price, channel_msg_id)

NextCreateFail ==
    \/ SaveAuction
    \/ SaveAuctionInsertRaises

SpecCreateFail == Init /\ [][NextCreateFail]_vars

\* the submission pipeline: finished wizards and admin decisions, one at a time
SaveSubmission ==
    \E u \in Submitters, category \in SubmitCategories, base_price \in SubmitPrices :
        save_submission(u, SubmissionData(category, base_price))

HandleVerification ==
    \E action \in {"verify", "reject"}, submission_id \in 1..MaxSubmissions,
       fault \in VerifyFaults :
        handle_verification(action, submission_id, fault)

NextSub ==
    \/ SaveSubmission
    \/ HandleVerification

SpecSub == Init /\ [][NextSub]_vars

\* decisions that run to their end
HandleVerificationDone ==
    \E action \in {"verify", "reject"}, submission_id \in 1..MaxSubmissions :
        handle_verification(action, submission_id, "none")

\* every command of the bot, one update at a time: the four gate commands,
\* submissions and decisions, bid sessions, bids and retractions
StartSubmission == \E u \in Users : start_submission(u)

EndSubmission == \E u \in Users : end_submission(u)

SaveSubmissionTm ==
    \E u \in Submitters, base_price \in SubmitPrices :
        save_submission(u, SubmissionData("tms", base_price))

StartBySubmitter == \E u \in Submitters, auction_id \in 1..MaxAuctions : start(u, auction_id)

HandleBidAmountThreshold ==
    \E u \in Submitters, text \in {Some(x) : x \in ThresholdAmounts},
       fault \in {"none", "read"} :
        handle_bid_amount(u, text, fault)

NextBot ==
    \/ StartSubmission
    \/ EndSubmission
    \/ StartAuction
    \/ EndAuction
    \/ SaveSubmissionTm
    \/ HandleVerificationDone
    \/ StartBySubmitter
    \/ HandleBidAmountThreshold
    \/ HandleRemoveBid

SpecBot == Init /\ [][NextBot]_vars

\* the wizard's price step, decisions that run to their end, and the bids
\* and retractions on the auctions they create
HandleBasePrice ==
    \E u \in Submitters, category \in SubmitCategories, text \in PriceTexts :
        get_base_price_state(u, category, text)

NextPrice ==
    \/ HandleBasePrice
    \/ HandleVerificationDone
    \/ StartBySubmitter
    \/ StartAuction
    \/ HandleBidAmountThreshold
    \/ HandleRemoveBid

SpecPrice == Init /\ [][NextPrice]_vars

\* the submission pipeline with a store that may stay down through a decision
HandleVerificationStuck ==
    \E submission_id \in 1..MaxSubmissions :
        handle_verification("verify", submission_id, "stuck")

NextSubStuck ==
    \/ SaveSubmission
    \/ HandleVerification
    \/ HandleVerificationStuck

SpecSubStuck == Init /\ [][NextSubStuck]_vars

\* bid sessions that keep their minimum, with bids and retractions between
\* the opening of a session and its amount
StartSession == \E u \in Users, auction_id \in 1..MaxAuctions : start_session(u, auction_id)

HandleBidAmountSession ==
    \E u \in Users, text \in {Some(x) : x \in ThresholdAmounts} :
        handle_bid_amount(u, text, "none")

NextSession ==
    \/ SaveAuctionNoRef
    \/ StartSession
    \/ StartAuction
    \/ HandleBidAmountSession
    \/ HandleRemoveBid

SpecSession == Init /\ [][NextSession]_vars

\* the /add conversation under the submissions gate
StartAdd == \E u \in Users : start_add(u)

AddBasePrice ==
    \E u \in Users, category \in SubmitCategories, text \in PriceTexts :
        add_base_price(u, category, text)

NextWizard ==
    \/ StartSubmission
    \/ EndSubmission
    \/ StartAdd
    \/ AddBasePrice

SpecWizard == Init /\ [][NextWizard]_vars

\* decisions whose reads and writes interleave
VerificationRead ==
    \E c \in Clicks, action \in {"verify", "reject"}, submission_id \in 1..MaxSubmissions :
        handle_verification_read(c, action, submission_id)

VerificationWrite == \E c \in Clicks : handle_verification_write(c)

NextDecide ==
    \/ SaveSubmission
    \/ VerificationRead
    \/ VerificationWrite

SpecDecide == Init /\ [][NextDecide]_vars

\* get_active_auctions_by_category on its own: tables drawn from the rows the
\* schema admits (references unique per table), then the listing
ListCategories == {"legendary", "shiny", "tms", "nonlegendary", "other"}

ListRefs == {Null} \cup {Some(r) : r \in 1..MaxRef}

DistinctRefs(t) ==
    \A i, j \in DOMAIN t :
        (i # j /\ t[i].channel_message_id # Null) =>
            t[i].channel_message_id # t[j].channel_message_id

ListAuctionTables ==
    {t \in UNION {[1..n -> [is_active : BOOLEAN, channel_message_id : ListRefs]] :
                     n \in 0..MaxAuctions} : DistinctRefs(t)}

ListSubmissionTables ==
    {t \in UNION {[1..n -> [category : ListCategories, channel_message_id : ListRefs]] :
                     n \in 0..MaxSubmissions} : DistinctRefs(t)}

InitList ==
    /\ \E t \in ListAuctionTables :
          auctions = [k \in DOMAIN t |->
              [auction_id |-> k, item_text |-> "item", photo_id |-> Null,
               base_price |-> 5000, current_bid |-> Null, current_bidder |-> Null,
               previous_bidder |-> Null, is_active |-> t[k].is_active,
               channel_message_id |-> t[k].channel_message_id]]
    /\ \E t \in ListSubmissionTables :
          submissions = [i \in DOMAIN t |->
              [submission_id |-> i, user_id |-> 2,
               data |-> SubmissionData(t[i].category, 5000),
               status |-> IF t[i].channel_message_id # Null THEN "approved" ELSE "pending",
               channel_message_id |-> t[i].channel_message_id]]
    /\ bids = <<>>
    /\ system_status = [submissions_open |-> FALSE, auctions_open |-> FALSE]
    /\ verified = Users \ ADMINS
    /\ bid_context = [u \in Users |-> Null]
    /\ now = 0
    /\ reply = Reply("init", 0, 0, 0, "none", Null)
    /\ inc_x = Null /\ inc_y = Null /\ inc_fx = 0 /\ inc_fy = 0
    /\ next_message_id = MaxRef + 1
    /\ decision = NoDecision
    /\ listing = Null
    /\ inflight = [u \in Users |-> Null]
    /\ deciding = [c \in Clicks |-> Null]
    /\ session_min_bid = [u \in Users |-> Null]
    /\ wizard = [u \in Users |-> FALSE]

ApplyList ==
    /\ listing = Null
    /\ listing' = Some(get_active_auctions_by_category(auctions, submissions))
    /\ UNCHANGED <<dbVars, system_status, verified, bid_context, now, reply, incVars,
                   subVars, inflight, deciding, session_min_bid, wizard>>

NextList == ApplyList

SpecList == InitList /\ [][NextList]_vars

\* bid handlers whose reads and writes interleave
BidValidate ==
    \E u \in Users, text \in {Null} \cup {Some(x) : x \in ThresholdAmounts} :
        handle_bid_amount_validate(u, text)

BidRecord == \E u \in Users : handle_bid_amount_record(u)

NextRace ==
    \/ SaveAuctionNoRef
    \/ Start
    \/ StartAuction
    \/ BidValidate
    \/ BidRecord

SpecRace == Init /\ [][NextRace]_vars

\* the ledger handlers with a step that may fail
HandleBidAmountFaulty ==
    \E u \in Users, text \in {Null} \cup {Some(x) : x \in ThresholdAmounts}, fault \in BidFaults :
        handle_bid_amount(u, text, fault)

HandleRemoveBidFaulty ==
    \E u \in Users, args \in {Null} \cup {Some(a) : a \in 1..MaxAuctions},
       fault \in RemoveFaults :
        handle_remove_bid(u, args, fault)

NextFail ==
    \/ SaveAuctionNoRef
    \/ Start
    \/ StartAuction
    \/ HandleBidAmountFaulty
    \/ HandleRemoveBidFaulty

SpecFail == Init /\ [][NextFail]_vars

\* bids of an absorbing amount
HandleBidAmountInf == \E u \in Users : handle_bid_amount(u, Some(Inf), "none")

NextTie ==
    \/ SaveAuctionNoRef
    \/ Start
    \/ StartAuction
    \/ HandleBidAmountInf

SpecTie == Init /\ [][NextTie]_vars

\* get_min_increment on its own: two sampled arguments, then both results
InitInc ==
    /\ auctions = <<>>
    /\ bids = <<>>
    /\ system_status = [submissions_open |-> FALSE, auctions_open |-> FALSE]
    /\ verified = Users \ ADMINS
    /\ bid_context = [u \in Users |-> Null]
    /\ now = 0
    /\ reply = Reply("init", 0, 0, 0, "none", Null)
    /\ inc_x \in IncInputs
    /\ inc_y \in IncInputs
    /\ inc_fx = 0
    /\ inc_fy = 0
    /\ submissions = <<>>
    /\ next_message_id = 1
    /\ decision = NoDecision
    /\ listing = Null
    /\ inflight = [u \in Users |-> Null]
    /\ deciding = [c \in Clicks |-> Null]
    /\ session_min_bid = [u \in Users |-> Null]
    /\ wizard = [u \in Users |-> FALSE]

ApplyInc ==
    /\ inc_fx = 0
    /\ inc_fx' = get_min_increment(inc_x)
    /\ inc_fy' = get_min_increment(inc_y)
    /\ UNCHANGED <<dbVars, system_status, verified, bid_context, now, reply, inc_x, inc_y,
                   subVars, extVars>>

NextInc == ApplyInc

SpecInc == InitInc /\ [][NextInc]_vars

(* ------------------------- vocabulary of the claims -------------------- *)
HasAuction(a) == \E i \in DOMAIN auctions : auctions[i].auction_id = a

RowOf(as, a) == as[CHOOSE i \in DOMAIN as : as[i].auction_id = a]

ActiveOf(bs, a) == {i \in DOMAIN bs : bs[i].auction_id = a /\ bs[i].is_active = TRUE}

BidsOf(bs, a) == {i \in DOMAIN bs : bs[i].auction_id = a}

\* currentAmount + minIncrement(currentAmount), currentAmount = currentBid ?? basePrice
ClaimThreshold(row) ==
    LET cur == IF row.current_bid # Null THEN row.current_bid[1] ELSE row.base_price
    IN  cur + get_min_increment(Some(cur))

\* a run of the bid handler by u that got past the gates and parsed a number
BidRun(u) ==
    /\ reply'.op = "bid" /\ reply'.user = u
    /\ UNCHANGED <<system_status, bid_context>>
    /\ u \in ADMINS \cup verified
    /\ system_status.auctions_open
    /\ bid_context[u] # Null
    /\ reply'.result # "invalid_number"

\* a run of the bid handler by u that recorded a bid
PlacedRun(u) ==
    reply'.op = "bid" /\ reply'.user = u /\ reply'.result = "placed" /\ bids' # bids

\* a run of retractLastBid on the existing auction a
RemoveRun(a) ==
    /\ reply'.op = "remove" /\ reply'.auction_id = a
    /\ UNCHANGED <<system_status, bid_context>>
    /\ HasAuction(a)

\* a run of createAuction
SaveRun ==
    reply'.op = "save_auction" /\ UNCHANGED <<system_status, bid_context>>

\* bid i was placed after bid j: later timestamp, then higher id
PlacedAfter(bs, i, j) ==
    \/ bs[i].timestamp > bs[j].timestamp
    \/ bs[i].timestamp = bs[j].timestamp /\ bs[i].bid_id > bs[j].bid_id

(* ------------------------------- claims -------------------------------- *)
\* C1: for every auction, current_bid is null iff the auction has no active
\* bid row, and otherwise it is the maximum amount among the active bids and
\* current_bidder is the name on a bid of that amount.
C1_CurrentBidIsMaxActive ==
    \A k \in DOMAIN auctions :
        LET row == auctions[k]
            act == ActiveOf(bids, row.auction_id)
        IN  /\ (row.current_bid = Null) <=> (act = {})
            /\ row.current_bid # Null =>
                 /\ \A j \in act : bids[j].amount <= row.current_bid[1]
                 /\ \E j \in act : /\ bids[j].amount = row.current_bid[1]
                                   /\ row.current_bidder = Some(bids[j].bidder_name)

C1_Witness ==
    /\ reply.op = "remove" /\ reply.result = "removed"
    /\ \E k \in DOMAIN auctions :
          /\ auctions[k].current_bid # Null
          /\ \E i \in BidsOf(bids, auctions[k].auction_id) : ~bids[i].is_active
          /\ ActiveOf(bids, auctions[k].auction_id) # {}

\* C2: a parsed bid that reaches validation is refused, with both tables
\* unchanged, when it is below currentAmount + minIncrement(currentAmount),
\* and is recorded when it equals that threshold.
C2_ThresholdRule ==
    [][\A u \in Users :
         BidRun(u) =>
           LET a == bid_context[u][1].auction_id
               thr == ClaimThreshold(RowOf(auctions, a))
               x == reply'.amount
           IN  /\ reply'.auction_id = a
               /\ x < thr => reply'.result = "too_low" /\ UNCHANGED dbVars
               /\ x = thr =>
                    /\ reply'.result = "placed"
                    /\ Len(bids') = Len(bids) + 1
                    /\ SubSeq(bids', 1, Len(bids)) = bids
                    /\ bids'[Len(bids')].auction_id = a
                    /\ bids'[Len(bids')].bidder_id = u
                    /\ bids'[Len(bids')].amount = x
                    /\ bids'[Len(bids')].is_active = TRUE
                    /\ RowOf(auctions', a).current_bid = Some(x)]_vars

C2_Witness ==
    /\ reply.op = "bid" /\ reply.result = "placed" /\ reply.amount = 7000
    /\ \E i \in ActiveOf(bids, reply.auction_id) : bids[i].amount = 6000

StoredNames == [u \in Users |-> IF u = 1 THEN <<"@", "a">> ELSE <<"@", "b", "\\", "_", "c">>]

C5_SoleBidRetracted ==
    [][\A a \in 1..MaxAuctions :
         (RemoveRun(a) /\ Cardinality(ActiveOf(bids, a)) = 1) =>
           LET only == CHOOSE i \in ActiveOf(bids, a) : TRUE
               after == RowOf(auctions', a)
           IN  /\ after.current_bid = Null
               /\ after.current_bidder = Null
               /\ after.previous_bidder = Some(bids[only].bidder_name)
               /\ reply'.result = "removed"
               /\ reply'.ret = Some(<<Null, Null>>)]_vars

C5_Witness ==
    /\ reply.op = "remove" /\ reply.result = "removed" /\ reply.ret = Some(<<Null, Null>>)
    /\ RowOf(auctions, reply.auction_id).current_bid = Null
    /\ RowOf(auctions, reply.auction_id).previous_bidder # Null

\* C6: retractLastBid on an auction without active bids answers 'no active
\* bids to remove' and changes no auction row and no bid row.
C6_RetractNoopWhenEmpty ==
    [][\A a \in 1..MaxAuctions :
         (RemoveRun(a) /\ ActiveOf(bids, a) = {}) =>
           /\ reply'.result = "no_active_bids"
           /\ reply'.ret = Null
           /\ UNCHANGED dbVars]_vars

C6_Witness ==
    /\ reply.op = "remove" /\ reply.result = "no_active_bids"
    /\ Cardinality(BidsOf(bids, reply.auction_id)) = 1
    /\ ActiveOf(bids, reply.auction_id) = {}
    /\ RowOf(auctions, reply.auction_id).previous_bidder # Null

\* the stages of the scenario on auction a (base price 5000)
ScenarioFresh(a) ==
    HasAuction(a) /\ RowOf(auctions, a).base_price = 5000 /\ BidsOf(bids, a) = {}

ScenarioOneBid(a) ==
    /\ HasAuction(a) /\ RowOf(auctions, a).base_price = 5000
    /\ Cardinality(BidsOf(bids, a)) = 1
    /\ \A i \in BidsOf(bids, a) : bids[i].amount = 6000 /\ bids[i].is_active

ScenarioTwoBids(a) ==
    /\ HasAuction(a) /\ RowOf(auctions, a).base_price = 5000
    /\ Cardinality(BidsOf(bids, a)) = 2
    /\ \A i \in BidsOf(bids, a) : bids[i].is_active
    /\ \E i, j \in BidsOf(bids, a) :
          bids[i].bid_id < bids[j].bid_id /\ bids[i].amount = 6000 /\ bids[j].amount = 7000

\* C7: on a fresh auction with base price 5000 a bid of 6000 is recorded; then
\* 6999 is refused and changes nothing while 7000 is recorded; then one
\* retractLastBid leaves current_bid 6000 and current_bidder the name on the
\* 6000 bid.
C7_Scenario ==
    [][\A a \in 1..MaxAuctions :
         /\ \A u \in Users :
              (BidRun(u) /\ bid_context[u][1].auction_id = a) =>
                /\ (ScenarioFresh(a) /\ reply'.amount = 6000) =>
                      /\ reply'.result = "placed"
                      /\ RowOf(auctions', a).current_bid = Some(6000)
                /\ (ScenarioOneBid(a) /\ reply'.amount = 6999) =>
                      /\ reply'.result = "too_low"
                      /\ UNCHANGED dbVars
                /\ (ScenarioOneBid(a) /\ reply'.amount = 7000) =>
                      /\ reply'.result = "placed"
                      /\ RowOf(auctions', a).current_bid = Some(7000)
         /\ (RemoveRun(a) /\ ScenarioTwoBids(a)) =>
              \E i \in BidsOf(bids, a) :
                 /\ bids[i].amount = 6000
                 /\ bids'[i].is_active
                 /\ RowOf(auctions', a).current_bid = Some(6000)
                 /\ RowOf(auctions', a).current_bidder = Some(bids[i].bidder_name)]_vars

C7_Witness ==
    /\ reply.op = "remove" /\ reply.result = "removed"
    /\ RowOf(auctions, reply.auction_id).base_price = 5000
    /\ RowOf(auctions, reply.auction_id).current_bid = Some(6000)
    /\ Cardinality(BidsOf(bids, reply.auction_id)) = 2
    /\ \E i, j \in BidsOf(bids, reply.auction_id) :
          /\ bids[i].amount = 6000 /\ bids[i].is_active
          /\ bids[j].amount = 7000 /\ ~bids[j].is_active
          /\ RowOf(auctions, reply.auction_id).current_bidder = Some(bids[i].bidder_name)

\* arguments createAuction accepts: item text non-empty, base price present
ValidSaveArgs(args) == args[1] # "" /\ args[3] # Null

RowsWithRef(as, ref) == {i \in DOMAIN as : as[i].channel_message_id = ref}

\* C8: a createAuction call whose supplied reference is already on an active
\* auction returns the duplicate signal (None) and changes nothing, so no
\* reference is ever on two auction rows.
C8_DuplicateRefIsNoop ==
    [][SaveRun =>
         LET ref == reply'.args[4] IN
         /\ (/\ ValidSaveArgs(reply'.args)
             /\ ref # Null
             /\ \E i \in RowsWithRef(auctions, ref) : auctions[i].is_active)
            => /\ reply'.result = "duplicate"
               /\ reply'.ret = Null
               /\ UNCHANGED dbVars
         /\ \A r \in 1..MaxRef : Cardinality(RowsWithRef(auctions', Some(r))) <= 1]_vars

C8_Witness ==
    /\ reply.op = "save_auction" /\ reply.result = "duplicate"
    /\ reply.args[4] # Null
    /\ Cardinality(RowsWithRef(auctions, reply.args[4])) = 1
    /\ Len(auctions) = 1

\* C9: a createAuction call with valid arguments that is not a duplicate
\* appends exactly one auction row (current_bid and current_bidder null,
\* active, the given base price), returns its id, which is greater than every
\* earlier id, and changes no existing auction row and no bid row.
C9_CreateAppendsFreshRow ==
    [][(/\ SaveRun
        /\ ValidSaveArgs(reply'.args)
        /\ (reply'.args[4] = Null \/ RowsWithRef(auctions, reply'.args[4]) = {}))
       => /\ reply'.result = "created"
          /\ Len(auctions') = Len(auctions) + 1
          /\ SubSeq(auctions', 1, Len(auctions)) = auctions
          /\ bids' = bids
          /\ LET row == auctions'[Len(auctions')] IN
                /\ row.current_bid = Null
                /\ row.current_bidder = Null
                /\ row.is_active = TRUE
                /\ row.base_price = reply'.args[3][1]
                /\ reply'.ret = Some(row.auction_id)
                /\ \A i \in DOMAIN auctions : auctions[i].auction_id < row.auction_id]_vars

C9_Witness ==
    /\ reply.op = "save_auction" /\ reply.result = "created" /\ reply.ret = Some(2)
    /\ Len(auctions) = 2
    /\ auctions[1].current_bid # Null
    /\ auctions[2].current_bid = Null /\ auctions[2].base_price = 5000
    /\ bids # <<>>

\* the increment table of the claim, by interval
ClaimTier(x) ==
    CASE x = Null -> 1000
      [] x # Null /\ x[1] \in 0..19999 -> 1000
      [] x # Null /\ x[1] \in 20000..39999 -> 2000
      [] x # Null /\ x[1] \in 40000..69999 -> 3000
      [] x # Null /\ x[1] \in 70000..99999 -> 4000
      [] x # Null /\ x[1] >= 100000 -> 5000

\* C10: minIncrement is 1000 for null, zero and amounts below 20000, 2000 on
\* [20000, 40000), 3000 on [40000, 70000), 4000 on [70000, 100000) and 5000
\* from 100000 on; it is non-decreasing and always one of the five steps.
C10_MinIncrementTiers ==
    inc_fx # 0 =>
      /\ inc_fx = ClaimTier(inc_x)
      /\ inc_fy = ClaimTier(inc_y)
      /\ inc_fx \in {1000, 2000, 3000, 4000, 5000}
      /\ (inc_x # Null /\ inc_y # Null /\ inc_x[1] <= inc_y[1]) => inc_fx <= inc_fy

C10_Witness ==
    /\ inc_x = Some(19999) /\ inc_fx = 1000
    /\ inc_y = Some(20000) /\ inc_fy = 2000

(* ----------------------- claims on the submission pipeline ------------- *)
Statuses == {"pending", "processing", "approved", "rejected", "failed"}

StatusEdges == {<<"pending", "processing">>, <<"processing", "approved">>,
                <<"processing", "failed">>, <<"pending", "rejected">>}

SubRow(subs, sid) == subs[CHOOSE i \in DOMAIN subs : subs[i].submission_id = sid]

HasSubmission(sid) == \E i \in DOMAIN submissions : submissions[i].submission_id = sid

\* a run of the decision handler that wrote to submission sid
DecideRun(sid) ==
    /\ decision'.submission_id = sid
    /\ decision'.trail # <<>>
    /\ Len(submissions') = Len(submissions)
    /\ submissions' # submissions

\* the statuses submission row i went through in this step, the old one first
StatusPath(i) ==
    <<submissions[i].status>> \o
    (IF DecideRun(submissions[i].submission_id) THEN decision'.trail ELSE <<>>)

AuctionsWithRef(as, ref) == {k \in DOMAIN as : as[k].channel_message_id = ref}

\* C11: a submission's status is one of the five values and moves only along
\* pending -> processing, processing -> approved, processing -> failed and
\* pending -> rejected; approved, rejected and failed are never left.
C11_StatusEdges ==
    [][/\ \A i \in DOMAIN submissions' : submissions'[i].status \in Statuses
       /\ \A i \in DOMAIN submissions :
            /\ \A k \in 1..(Len(StatusPath(i)) - 1) :
                  <<StatusPath(i)[k], StatusPath(i)[k + 1]>> \in StatusEdges
            /\ submissions'[i].status = StatusPath(i)[Len(StatusPath(i))]]_vars

\* C12: every approved submission carries a channel reference that is on
\* exactly one auction row, the row created by its approval; the approved
\* status and the two references are written in the same step.
C12_ApprovedHasOneAuction ==
    [][/\ \A i \in DOMAIN submissions' :
            submissions'[i].status = "approved" =>
              /\ submissions'[i].channel_message_id # Null
              /\ Cardinality(AuctionsWithRef(auctions',
                                 submissions'[i].channel_message_id)) = 1
       /\ \A i \in DOMAIN submissions :
            LET sid == submissions[i].submission_id
                wroteApproved ==
                    DecideRun(sid) /\ \E k \in DOMAIN decision'.trail :
                                         decision'.trail[k] = "approved"
            IN  /\ wroteApproved <=>
                     submissions'[i].channel_message_id # submissions[i].channel_message_id
                /\ wroteApproved =>
                     /\ decision'.auction_id # Null /\ decision'.message_id # Null
                     /\ submissions'[i].channel_message_id = decision'.message_id
                     /\ Len(auctions') = Len(auctions) + 1
                     /\ auctions'[Len(auctions')].auction_id = decision'.auction_id[1]
                     /\ auctions'[Len(auctions')].channel_message_id = decision'.message_id
       /\ \A k \in DOMAIN auctions' :
            auctions'[k].channel_message_id # Null =>
              \/ k \in DOMAIN auctions /\ auctions[k] = auctions'[k]
              \/ \E i \in DOMAIN submissions :
                    /\ DecideRun(submissions[i].submission_id)
                    /\ submissions'[i].channel_message_id = auctions'[k].channel_message_id]_vars

C12_Witness ==
    /\ decision.result = "approved" /\ decision.auction_id = Some(2)
    /\ Len(auctions) = 2
    /\ auctions[1].channel_message_id = Null
    /\ auctions[2].channel_message_id = SubRow(submissions, decision.submission_id).channel_message_id
    /\ SubRow(submissions, decision.submission_id).status = "approved"
    /\ \E i \in DOMAIN submissions : submissions[i].status = "failed"

\* C13: when building the item text, createAuction, the channel post or the
\* write of the message reference fails, the run ends with the submission
\* failed, having created at most one auction and posted at most one message.
C13_FailureMarksFailed ==
    [][\A sid \in 1..MaxSubmissions, fault \in {"format", "save", "post", "persist"} :
         (/\ HasSubmission(sid)
          /\ SubRow(submissions, sid).status = "pending"
          /\ handle_verification("verify", sid, fault))
         => /\ SubRow(submissions', sid).status = "failed"
            /\ decision'.trail = <<"processing", "failed">>
            /\ decision'.result = "processing_failed"
            /\ Len(auctions') <= Len(auctions) + 1
            /\ next_message_id' <= next_message_id + 1
            /\ \A i \in DOMAIN submissions :
                  submissions[i].submission_id # sid => submissions'[i] = submissions[i]]_vars

C13_Witness ==
    /\ decision.action = "verify" /\ decision.result = "processing_failed"
    /\ decision.auction_id # Null /\ decision.message_id # Null
    /\ decision.trail = <<"processing", "failed">>
    /\ SubRow(submissions, decision.submission_id).status = "failed"
    /\ SubRow(submissions, decision.submission_id).channel_message_id = Null

\* C14: rejecting a pending submission writes rejected as its only status,
\* creates no auction, posts nothing and leaves every auction and bid row
\* unchanged.
C14_RejectIsDirect ==
    [][\A sid \in 1..MaxSubmissions, fault \in VerifyFaults \ {"mark"} :
         (/\ HasSubmission(sid)
          /\ SubRow(submissions, sid).status = "pending"
          /\ handle_verification("reject", sid, fault))
         => /\ SubRow(submissions', sid).status = "rejected"
            /\ decision'.trail = <<"rejected">>
            /\ decision'.auction_id = Null
            /\ UNCHANGED <<dbVars, next_message_id>>]_vars

C14_Witness ==
    /\ decision.action = "reject" /\ decision.result = "rejected"
    /\ SubRow(submissions, decision.submission_id).status = "rejected"
    /\ Len(auctions) = 1
    /\ \E i \in DOMAIN submissions : submissions[i].status = "approved"

(* ----------------------------- claims on listing ----------------------- *)
ListedIn(b) == {r.auction_id : r \in listing[1][b]}

\* auction row k has a submission with its reference and a recognised category
HasRecognisedPayload(k) ==
    \E i \in DOMAIN submissions :
        /\ auctions[k].channel_message_id # Null
        /\ submissions[i].channel_message_id = auctions[k].channel_message_id
        /\ submissions[i].data.category \in {"legendary", "shiny", "tms"}

\* C15: the listing has exactly the four buckets; every active auction is in
\* some bucket; an active auction whose submission payload is missing or has
\* no recognised category is in the nonlegendary bucket; no inactive auction
\* is in any bucket.
C15_ListingBuckets ==
    listing # Null =>
      /\ DOMAIN listing[1] = {"legendary", "shiny", "nonlegendary", "tms"}
      /\ \A k \in DOMAIN auctions :
            /\ auctions[k].is_active =>
                  \E b \in DOMAIN listing[1] : auctions[k].auction_id \in ListedIn(b)
            /\ (auctions[k].is_active /\ ~HasRecognisedPayload(k)) =>
                  auctions[k].auction_id \in ListedIn("nonlegendary")
            /\ ~auctions[k].is_active =>
                  \A b \in DOMAIN listing[1] : auctions[k].auction_id \notin ListedIn(b)

C15_Witness ==
    /\ listing # Null
    /\ Len(auctions) = 2
    /\ auctions[1].is_active /\ auctions[1].channel_message_id = Null
    /\ ~auctions[2].is_active /\ auctions[2].channel_message_id # Null
    /\ \E i \in DOMAIN submissions :
          /\ submissions[i].channel_message_id = auctions[2].channel_message_id
          /\ submissions[i].data.category = "shiny"
    /\ ListedIn("nonlegendary") = {1}
    /\ ListedIn("shiny") = {}

(* ------------------------- claims on interleaved bids ------------------ *)
MaxActiveAmount(bs, a) ==
    CHOOSE m \in {bs[i].amount : i \in ActiveOf(bs, a)} :
        \A i \in ActiveOf(bs, a) : bs[i].amount <= m

\* C16: a bid that passed validation against the amount it read is recorded as
\* an active bid and becomes current_bid whatever was recorded in between, and
\* validation looks only at the stored auction, not at bids in flight; so two
\* handlers that both read before either records are both recorded, and
\* current_bid can end below the highest active bid.
C16_StaleReadBothRecorded ==
    [][\A u \in Users :
         /\ (inflight[u] # Null /\ inflight'[u] = Null) =>
               LET a == inflight[u][1].auction_id
                   x == inflight[u][1].bid_amount
               IN  /\ Len(bids') = Len(bids) + 1
                   /\ SubSeq(bids', 1, Len(bids)) = bids
                   /\ bids'[Len(bids')].auction_id = a
                   /\ bids'[Len(bids')].bidder_id = u
                   /\ bids'[Len(bids')].amount = x
                   /\ bids'[Len(bids')].is_active = TRUE
                   /\ RowOf(auctions', a).current_bid = Some(x)
         /\ \A x \in ThresholdAmounts :
               (/\ handle_bid_amount_validate(u, Some(x))
                /\ u \in ADMINS \cup verified
                /\ system_status.auctions_open
                /\ bid_context[u] # Null
                /\ HasAuction(bid_context[u][1].auction_id)
                /\ x >= ClaimThreshold(RowOf(auctions, bid_context[u][1].auction_id)))
               => inflight'[u] = Some([auction_id |-> bid_context[u][1].auction_id,
                                       bid_amount |-> x])]_vars

C16_Witness ==
    \E k \in DOMAIN auctions :
        LET a == auctions[k].auction_id IN
        /\ Cardinality(ActiveOf(bids, a)) = 2
        /\ auctions[k].current_bid = Some(6000)
        /\ MaxActiveAmount(bids, a) = 7000
        /\ \E i, j \in ActiveOf(bids, a) :
              /\ bids[i].bid_id < bids[j].bid_id
              /\ bids[i].amount = 7000 /\ bids[j].amount = 6000
              /\ bids[j].amount < bids[i].amount + get_min_increment(Some(bids[i].amount))

(* ---------------------- claims on recorded bids and failures ----------- *)
\* C17 as stated: every recorded bid is strictly above the current amount at
\* placement plus the minimum increment for that amount.
C17_Original ==
    [][\A u \in Users :
         PlacedRun(u) =>
           bids'[Len(bids')].amount >
               ClaimThreshold(RowOf(auctions, reply'.auction_id))]_vars

\* C17 (amended): every recorded bid is at least the current amount at
\* placement plus the minimum increment for that amount.
C17_RecordedAtLeastThreshold ==
    [][\A u \in Users :
         PlacedRun(u) =>
           /\ bids'[Len(bids')].auction_id = reply'.auction_id
           /\ bids'[Len(bids')].amount = reply'.amount
           /\ bids'[Len(bids')].amount >=
                 ClaimThreshold(RowOf(auctions, reply'.auction_id))]_vars

C17_Witness ==
    /\ reply.op = "bid" /\ reply.result = "placed" /\ reply.amount = 6000
    /\ Len(bids) = 1 /\ bids[1].amount = 6000 /\ bids[1].is_active
    /\ RowOf(auctions, bids[1].auction_id).base_price = 5000

\* C18: recordBid returns the active bid of the auction with the highest
\* amount as it stood before the insert (bidder id, name, amount), or none
\* when there was no active bid; the returned name is the value written to
\* previous_bidder.
C18_ReturnsPriorLeader ==
    [][\A u \in Users :
         PlacedRun(u) =>
           LET a == reply'.auction_id
               act == ActiveOf(bids, a)
               ret == reply'.ret
           IN  /\ act = {} => ret = Null
               /\ act # {} =>
                    /\ ret # Null
                    /\ \E i \in act :
                          /\ \A j \in act : bids[j].amount <= bids[i].amount
                          /\ ret[1] = <<bids[i].bidder_id, bids[i].bidder_name,
                                        bids[i].amount>>
                    /\ RowOf(auctions', a).previous_bidder = Some(ret[1][2])]_vars

\* a run of the bid handler by u on amount x that gets as far as record_bid
ReachesRecordBid(u, x) ==
    /\ u \in ADMINS \cup verified
    /\ system_status.auctions_open
    /\ bid_context[u] # Null
    /\ HasAuction(bid_context[u][1].auction_id)
    /\ x >= ClaimThreshold(RowOf(auctions, bid_context[u][1].auction_id))

\* C19: when a statement of recordBid or of retractLastBid fails (the insert,
\* the deactivation, the auction update after it, or the commit), the auctions
\* and bids tables are exactly as before the call.
C19_AllOrNothing ==
    [][/\ \A u \in Users, x \in ThresholdAmounts, fault \in {"insert", "update", "commit"} :
            (/\ reply'.op = "bid" /\ reply'.user = u /\ reply'.amount = x
             /\ ReachesRecordBid(u, x)
             /\ handle_bid_amount(u, Some(x), fault))
            => (UNCHANGED dbVars /\ reply'.result = "error")
       /\ \A u \in ADMINS, a \in 1..MaxAuctions,
             fault \in {"deactivate", "update", "commit"} :
            (/\ reply'.op = "remove" /\ reply'.auction_id = a
             /\ HasAuction(a)
             /\ handle_remove_bid(u, Some(a), fault))
            => (UNCHANGED dbVars /\ reply'.ret = Null)]_vars

C19_Witness ==
    /\ reply.op = "remove" /\ reply.result = "no_active_bids"
    /\ Cardinality(ActiveOf(bids, reply.auction_id)) = 2
    /\ RowOf(auctions, reply.auction_id).current_bid = Some(7000)

\* C20: when the caption, the channel update, its plain-text fallback or the
\* outbid notification fails after recordBid, the new bid row is there and
\* active and the auction shows the new bid and bidder.
C20_OutboundFailureKeepsBid ==
    [][\A u \in Users, x \in ThresholdAmounts,
          fault \in {"caption", "display", "fallback", "notify"} :
         (/\ reply'.op = "bid" /\ reply'.user = u /\ reply'.amount = x
          /\ ReachesRecordBid(u, x)
          /\ handle_bid_amount(u, Some(x), fault)) =>
           LET a == bid_context[u][1].auction_id IN
           /\ Len(bids') = Len(bids) + 1
           /\ SubSeq(bids', 1, Len(bids)) = bids
           /\ bids'[Len(bids')].auction_id = a
           /\ bids'[Len(bids')].bidder_id = u
           /\ bids'[Len(bids')].amount = x
           /\ bids'[Len(bids')].is_active = TRUE
           /\ RowOf(auctions', a).current_bid = Some(x)
           /\ RowOf(auctions', a).current_bidder = Some(bids'[Len(bids')].bidder_name)]_vars

C20_Witness ==
    /\ reply.op = "bid" /\ reply.result = "error"
    /\ RowOf(auctions, reply.auction_id).current_bid = Some(reply.amount)
    /\ \E i \in ActiveOf(bids, reply.auction_id) :
          /\ bids[i].amount = reply.amount
          /\ bids[i].bidder_id = reply.user
          /\ bids[i].bid_id = Len(bids)

\* C21: a Ledger operation that hits a store failure answers its caller with
\* a failure signal, never with one of its normal results: a bid whose read or
\* write fails is answered with the error, and a retraction whose read or
\* write fails is answered neither as not found, nor as no active bids, nor
\* as removed.
C21_FailureSignalDistinct ==
    [][/\ \A u \in Users, x \in ThresholdAmounts,
             fault \in {"read", "insert", "update", "commit"} :
            (/\ reply'.op = "bid" /\ reply'.user = u /\ reply'.amount = x
             /\ ReachesRecordBid(u, x)
             /\ handle_bid_amount(u, Some(x), fault))
            => reply'.result = "error"
       /\ \A u \in ADMINS, a \in 1..MaxAuctions,
             fault \in {"read", "deactivate", "update", "commit"} :
            (/\ reply'.op = "remove" /\ reply'.auction_id = a
             /\ HasAuction(a)
             /\ ActiveOf(bids, a) # {}
             /\ handle_remove_bid(u, Some(a), fault))
            => reply'.result \notin {"not_found", "no_active_bids", "removed"}]_vars

\* C22: when the store raises a key or constraint violation on the INSERT of
\* createAuction, the caller gets the duplicate outcome, not an error, and no
\* auction row is added.
C22_ConstraintIsDuplicate ==
    [][\A item_text \in ItemTexts, photo_id \in PhotoIds,
          base_price \in {Some(p) : p \in CreatePrices}, channel_msg_id \in ChannelRefs :
         (/\ ValidSaveArgs(<<item_text, photo_id, base_price, channel_msg_id>>)
          /\ ~(Truthy(channel_msg_id) /\ RefExists(channel_msg_id))
          /\ save_auction_insert_raises(item_text, photo_id, base_price, channel_msg_id))
         => (reply'.result = "duplicate" /\ auctions' = auctions)]_vars

\* C24: the base price of every auction is non-negative, and no step changes
\* the base price of an auction that exists (submissions priced by the
\* wizard, approvals, bids and retractions).
C24_BasePriceFixedNonNegative ==
    [][/\ \A k \in DOMAIN auctions' : auctions'[k].base_price >= 0
       /\ \A k \in DOMAIN auctions :
             /\ k \in DOMAIN auctions'
             /\ auctions'[k].auction_id = auctions[k].auction_id
             /\ auctions'[k].base_price = auctions[k].base_price]_vars

C24_Witness ==
    /\ Len(auctions) = 2
    /\ auctions[1].base_price = 0 /\ auctions[2].base_price = 5000
    /\ \E i \in DOMAIN bids : ~bids[i].is_active
    /\ \E i \in DOMAIN bids : bids[i].is_active

\* C23: a retraction that names an auction id with no row, a bid amount whose
\* auction the handler does not find, and a decision that names a submission
\* id with no row are each answered as not found (the bid handler's wording of
\* it is 'no longer active'), and leave the auction, bid and submission rows
\* as they were.
C23_UnknownIdIsNotFound ==
    [][/\ \A u \in ADMINS, a \in 1..MaxAuctions :
            (/\ reply'.op = "remove" /\ reply'.auction_id = a
             /\ ~HasAuction(a)
             /\ handle_remove_bid(u, Some(a), "none"))
            => (reply'.result = "not_found" /\ UNCHANGED <<auctions, bids, submissions>>)
       /\ \A u \in Users, x \in ThresholdAmounts, fault \in {"none", "read"} :
            (/\ reply'.op = "bid" /\ reply'.user = u /\ reply'.amount = x
             /\ PassesVerified(u) /\ system_status.auctions_open
             /\ bid_context[u] # Null
             /\ get_auction_try(bid_context[u][1].auction_id, fault) = Null
             /\ handle_bid_amount(u, Some(x), fault))
            => (reply'.result = "not_active" /\ UNCHANGED <<auctions, bids, submissions>>)
       /\ \A action \in {"verify", "reject"}, sid \in 1..MaxSubmissions :
            (/\ decision'.action = action /\ decision'.submission_id = sid
             /\ ~HasSubmission(sid)
             /\ handle_verification(action, sid, "none"))
            => (decision'.result = "not_found"
                /\ UNCHANGED <<auctions, bids, submissions>>)]_vars

C23_Witness ==
    /\ reply.op = "remove" /\ reply.result = "not_found"
    /\ decision.result = "not_found"
    /\ Len(auctions) = 1 /\ Len(submissions) = 1
    /\ decision.submission_id = 2 /\ reply.auction_id = 2

\* C25: both gates start closed; the submission commands leave auctions_open
\* as it was and the auction commands leave submissions_open as it was; a gate
\* command from a user who is not an admin changes neither flag; and a step
\* that changes a flag is a gate command of an admin.
C25_GatesIndependentAdminOnly ==
    /\ system_status = [submissions_open |-> FALSE, auctions_open |-> FALSE]
    /\ [][/\ \A u \in Users :
               /\ (start_submission(u) \/ end_submission(u))
                     => system_status'.auctions_open = system_status.auctions_open
               /\ (start_auction(u) \/ end_auction(u))
                     => system_status'.submissions_open = system_status.submissions_open
          /\ \A u \in Users \ ADMINS :
               (start_submission(u) \/ end_submission(u) \/ start_auction(u) \/ end_auction(u))
                  => UNCHANGED system_status
          /\ system_status' # system_status =>
               \E u \in ADMINS :
                  start_submission(u) \/ end_submission(u) \/ start_auction(u) \/ end_auction(u)
         ]_vars

C25_Witness ==
    /\ system_status.submissions_open /\ ~system_status.auctions_open
    /\ Len(bids) >= 1
    /\ \E i \in DOMAIN submissions : submissions[i].status = "approved"

\* C26: createAuction with an empty item text or without a base price fails
\* and adds no auction row; with an item text, a base price of zero and no
\* duplicate reference it creates the auction, whose base price is zero.
C26_MissingFieldsFailZeroAccepted ==
    [][/\ (SaveRun /\ (reply'.args[1] = "" \/ reply'.args[3] = Null))
            => (reply'.result = "error" /\ reply'.ret = Null /\ UNCHANGED dbVars)
       /\ (/\ SaveRun
           /\ reply'.args[1] # "" /\ reply'.args[3] = Some(0)
           /\ (reply'.args[4] = Null \/ RowsWithRef(auctions, reply'.args[4]) = {}))
            => /\ reply'.result = "created"
               /\ Len(auctions') = Len(auctions) + 1
               /\ auctions'[Len(auctions')].base_price = 0
               /\ reply'.ret = Some(auctions'[Len(auctions')].auction_id)]_vars

C26_Witness ==
    /\ reply.op = "save_auction" /\ reply.result = "error"
    /\ reply.args[1] = "item" /\ reply.args[3] = Null
    /\ Len(auctions) = 1 /\ auctions[1].base_price = 0

\* C27: after any handled decisions, every auction row belongs to an approved
\* submission that carries the same channel message reference; a submission
\* that ended failed or rejected has left no auction row.
C27_NoAuctionWithoutApproval ==
    \A k \in DOMAIN auctions :
        \E i \in DOMAIN submissions :
            /\ submissions[i].status = "approved"
            /\ submissions[i].channel_message_id # Null
            /\ submissions[i].channel_message_id = auctions[k].channel_message_id

\* C28: when two approvals of one pending submission interleave, the one that
\* writes second (it read pending, and finds the submission approved by the
\* other) creates no auction and makes no channel post.
C28_InterleavedApprovalsCreateOne ==
    [][\A c \in Clicks :
         (/\ deciding[c] # Null
          /\ deciding[c][1].action = "verify"
          /\ SubRow(submissions, deciding[c][1].submission_id).status = "approved"
          /\ handle_verification_write(c))
         => (auctions' = auctions /\ next_message_id' = next_message_id)]_vars

\* C29: with bids and retractions handled one at a time, the active bids of
\* an auction have strictly increasing amounts in the order of their bid ids,
\* and the bid retractLastBid would select (latest timestamp, then highest
\* id) carries the auction's current_bid, the highest active amount, and its
\* bidder is the current_bidder.
C29_ActiveBidsIncrease ==
    \A a \in 1..MaxAuctions :
        HasAuction(a) =>
          /\ \A i, j \in ActiveOf(bids, a) :
                bids[i].bid_id < bids[j].bid_id => bids[i].amount < bids[j].amount
          /\ \A last \in LastBids(a) :
                /\ RowOf(auctions, a).current_bid = Some(bids[last].amount)
                /\ RowOf(auctions, a).current_bidder = Some(bids[last].bidder_name)
                /\ \A i \in ActiveOf(bids, a) : bids[i].amount <= bids[last].amount

\* C30: a decision (approve or reject) for a submission whose status is not
\* pending is answered 'already' and changes no submission, auction or bid
\* row; in particular it creates no auction.
C30_OnlyPendingDecided ==
    [][\A action \in {"verify", "reject"}, sid \in 1..MaxSubmissions,
          fault \in VerifyFaults \cup {"stuck"} :
         (/\ decision'.action = action /\ decision'.submission_id = sid
          /\ HasSubmission(sid)
          /\ SubRow(submissions, sid).status \in
                {"processing", "approved", "rejected", "failed"}
          /\ handle_verification(action, sid, fault))
         => (decision'.result = "already"
             /\ UNCHANGED <<submissions, auctions, bids>>)]_vars

C30_Witness ==
    /\ decision.action = "verify" /\ decision.result = "already"
    /\ decision.submission_id = 1
    /\ Len(submissions) = 2
    /\ submissions[1].status = "approved"
    /\ submissions[2].status = "processing"
    /\ Len(auctions) = 1

\* C31: when the minimum kept in the user's session differs from the
\* threshold of the auction as stored when the amount is handled (a bid or a
\* retraction was committed in between), the amount is judged by the stored
\* state: below its threshold it is refused and nothing changes, at or above
\* it the bid is recorded.
C31_ValidatedAgainstStoredState ==
    [][\A u \in Users :
         (/\ BidRun(u)
          /\ UNCHANGED session_min_bid
          /\ session_min_bid[u] # Null
          /\ HasAuction(bid_context[u][1].auction_id)
          /\ session_min_bid[u] #
                Some(ClaimThreshold(RowOf(auctions, bid_context[u][1].auction_id))))
         => LET a == bid_context[u][1].auction_id
                threshold == ClaimThreshold(RowOf(auctions, a))
            IN  /\ reply'.amount < threshold
                     => (reply'.result = "too_low" /\ UNCHANGED dbVars)
                /\ reply'.amount >= threshold
                     => /\ reply'.result = "placed"
                        /\ Len(bids') = Len(bids) + 1
                        /\ bids'[Len(bids')].amount = reply'.amount
                        /\ RowOf(auctions', a).current_bid = Some(reply'.amount)]_vars

C31_Witness ==
    /\ reply.op = "bid" /\ reply.result = "placed" /\ reply.amount = 6000
    /\ session_min_bid[reply.user] = Some(7000)
    /\ \E i \in DOMAIN bids : ~bids[i].is_active /\ bids[i].auction_id = reply.auction_id

\* C32: a submission row is inserted only while submissions_open is true,
\* also when the gate was closed after the user entered the conversation.
C32_NoSubmissionWhileClosed ==
    [][Len(submissions') > Len(submissions) => system_status.submissions_open]_vars

\* C33: a bid row is inserted only while auctions_open is true; an amount
\* sent by a user with an open bid session while the gate is closed is
\* answered as disabled and leaves the bid and auction rows as they were.
C33_NoBidWhileClosed ==
    [][/\ Len(bids') > Len(bids) => system_status.auctions_open
       /\ \A u \in Users, x \in BidAmounts :
            (/\ reply'.op = "bid" /\ reply'.user = u
             /\ ~system_status.auctions_open
             /\ PassesVerified(u)
             /\ bid_context[u] # Null
             /\ handle_bid_amount(u, Some(x), "none"))
            => (reply'.result = "disabled" /\ UNCHANGED dbVars)]_vars

C33_Witness ==
    /\ reply.op = "bid" /\ reply.result = "disabled"
    /\ ~system_status.auctions_open
    /\ bid_context[reply.user] # Null
    /\ Len(bids) = 1
    /\ RowOf(auctions, bid_context[reply.user][1].auction_id).current_bid = Some(6000)

\* C34: when the status writes succeed, a finished approve decision on a
\* pending submission leaves it approved (every step succeeded) or failed (a
\* step after the first write failed), and no submission is left in
\* processing.
C34_ApproveEndsApprovedOrFailed ==
    [][/\ \A i \in DOMAIN submissions' : submissions'[i].status # "processing"
       /\ \A sid \in 1..MaxSubmissions, fault \in VerifyFaults \ {"mark"} :
            (/\ decision'.action = "verify" /\ decision'.submission_id = sid
             /\ HasSubmission(sid)
             /\ SubRow(submissions, sid).status = "pending"
             /\ handle_verification("verify", sid, fault))
            => /\ SubRow(submissions', sid).status \in {"approved", "failed"}
               /\ SubRow(submissions', sid).status = "approved" <=> fault = "none"
               /\ decision'.trail[1] = "processing"
               /\ decision'.trail[Len(decision'.trail)] = SubRow(submissions', sid).status
      ]_vars

C34_Witness ==
    /\ decision.action = "verify" /\ decision.result = "processing_failed"
    /\ decision.trail = <<"processing", "approved", "failed">>
    /\ Len(submissions) = 2
    /\ SubRow(submissions, decision.submission_id).status = "failed"
    /\ \E i \in DOMAIN submissions : submissions[i].status = "approved"

\* C35: every auction row stays, with its id, and is active in every state
\* from its creation on; every bid row stays, with its id, and a bid that is
\* inactive stays inactive.
C35_NothingDeactivatedOrDeleted ==
    [][/\ \A k \in DOMAIN auctions' : auctions'[k].is_active = TRUE
       /\ \A k \in DOMAIN auctions :
             k \in DOMAIN auctions' /\ auctions'[k].auction_id = auctions[k].auction_id
       /\ \A i \in DOMAIN bids :
             /\ i \in DOMAIN bids'
             /\ bids'[i].bid_id = bids[i].bid_id
             /\ ~bids[i].is_active => ~bids'[i].is_active]_vars

C35_Witness ==
    /\ ~system_status.auctions_open
    /\ Len(auctions) = 2
    /\ Len(bids) = 2
    /\ ~bids[1].is_active /\ bids[2].is_active
    /\ bids[1].auction_id = bids[2].auction_id

====
